---- MODULE Spec2Model ----
(***************************************************************************)
(* flake8-unused-arguments: the unused-argument rule of                    *)
(* flake8_unused_arguments.py, modelled over a bounded family of syntax    *)
(* trees.  Identifiers are sequences of one-character strings, so that     *)
(* str.startswith and str.format act on the characters of a name.  A       *)
(* syntax-tree node is a record whose "type" field is its ast class.       *)
(***************************************************************************)
EXTENDS Integers, Sequences, FiniteSets, TLC

VARIABLES
    tree,       \* the node handed in: Plugin.tree (an ast.Module) or the function a helper is called on
    options,    \* the five class attributes Plugin.ignore_*
    functions,  \* finder.functions
    index,      \* position of Plugin.run's loop in finder.functions (1-based)
    yielded,    \* the LintResults Plugin.run has yielded so far
    state,      \* where run stands ("start", "loop", "done", "raised"); for a helper called alone, "call" and then its name
    result      \* a helper's return value, or the exception that ended the call

vars == <<tree, options, functions, index, yielded, state, result>>

\* ---------------------------------------------------------------- identifiers

SELF == <<"s","e","l","f">>

CLASSMETHOD == <<"c","l","a","s","s","m","e","t","h","o","d">>

ABSTRACTMETHOD == <<"a","b","s","t","r","a","c","t","m","e","t","h","o","d">>

OVERLOAD == <<"o","v","e","r","l","o","a","d">>

NOT_IMPLEMENTED_ERROR == <<"N","o","t","I","m","p","l","e","m","e","n","t","e","d","E","r","r","o","r">>


\* MAGIC_METHODS, name for name ("__rfloordev__" is the source's spelling)
MAGIC_METHODS ==
    {<<"_","_","d","e","l","_","_">>, <<"_","_","r","e","p","r","_","_">>,
     <<"_","_","s","t","r","_","_">>, <<"_","_","b","y","t","e","s","_","_">>,
     <<"_","_","f","o","r","m","a","t","_","_">>, <<"_","_","l","t","_","_">>,
     <<"_","_","l","e","_","_">>, <<"_","_","e","q","_","_">>,
     <<"_","_","n","e","_","_">>, <<"_","_","g","t","_","_">>,
     <<"_","_","g","e","_","_">>, <<"_","_","h","a","s","h","_","_">>,
     <<"_","_","b","o","o","l","_","_">>, <<"_","_","g","e","t","a","t","t","r","_","_">>,
     <<"_","_","g","e","t","a","t","t","r","i","b","u","t","e","_","_">>, <<"_","_","s","e","t","a","t","t","r","_","_">>,
     <<"_","_","d","e","l","a","t","t","r","_","_">>, <<"_","_","d","i","r","_","_">>,
     <<"_","_","i","n","s","t","a","n","c","e","c","h","e","c","k","_","_">>, <<"_","_","s","u","b","c","l","a","s","s","c","h","e","c","k","_","_">>,
     <<"_","_","c","l","a","s","s","_","g","e","t","i","t","e","m","_","_">>, <<"_","_","l","e","n","_","_">>,
     <<"_","_","l","e","n","g","t","h","_","h","i","n","t","_","_">>, <<"_","_","g","e","t","i","t","e","m","_","_">>,
     <<"_","_","s","e","t","i","t","e","m","_","_">>, <<"_","_","d","e","l","i","t","e","m","_","_">>,
     <<"_","_","m","i","s","s","i","n","g","_","_">>, <<"_","_","i","t","e","r","_","_">>,
     <<"_","_","r","e","v","e","r","s","e","d","_","_">>, <<"_","_","c","o","n","t","a","i","n","s","_","_">>,
     <<"_","_","a","d","d","_","_">>, <<"_","_","s","u","b","_","_">>,
     <<"_","_","m","u","l","_","_">>, <<"_","_","m","a","t","m","u","l","_","_">>,
     <<"_","_","t","r","u","e","d","i","v","_","_">>, <<"_","_","f","l","o","o","r","d","i","v","_","_">>,
     <<"_","_","m","o","d","_","_">>, <<"_","_","d","i","v","m","o","d","_","_">>,
     <<"_","_","p","o","w","_","_">>, <<"_","_","l","s","h","i","f","t","_","_">>,
     <<"_","_","r","s","h","i","f","t","_","_">>, <<"_","_","a","n","d","_","_">>,
     <<"_","_","x","o","r","_","_">>, <<"_","_","o","r","_","_">>,
     <<"_","_","r","a","d","d","_","_">>, <<"_","_","r","s","u","b","_","_">>,
     <<"_","_","r","m","u","l","_","_">>, <<"_","_","r","t","r","u","e","d","i","v","_","_">>,
     <<"_","_","r","f","l","o","o","r","d","e","v","_","_">>, <<"_","_","r","m","o","d","_","_">>,
     <<"_","_","r","d","i","v","m","o","d","_","_">>, <<"_","_","r","p","o","w","_","_">>,
     <<"_","_","r","l","s","h","i","f","t","_","_">>, <<"_","_","r","r","s","h","i","f","t","_","_">>,
     <<"_","_","r","a","n","d","_","_">>, <<"_","_","r","x","o","r","_","_">>,
     <<"_","_","r","o","r","_","_">>, <<"_","_","i","a","d","d","_","_">>,
     <<"_","_","i","s","u","b","_","_">>, <<"_","_","i","m","u","l","_","_">>,
     <<"_","_","i","m","a","t","m","u","l","_","_">>, <<"_","_","i","t","r","u","e","d","i","v","_","_">>,
     <<"_","_","i","f","l","o","o","r","d","i","v","_","_">>, <<"_","_","i","m","o","d","_","_">>,
     <<"_","_","i","p","o","w","_","_">>, <<"_","_","i","l","s","h","i","f","t","_","_">>,
     <<"_","_","i","r","s","h","i","f","t","_","_">>, <<"_","_","i","a","n","d","_","_">>,
     <<"_","_","i","x","o","r","_","_">>, <<"_","_","i","o","r","_","_">>,
     <<"_","_","n","e","g","_","_">>, <<"_","_","p","o","s","_","_">>,
     <<"_","_","a","b","s","_","_">>, <<"_","_","i","n","v","e","r","t","_","_">>,
     <<"_","_","c","o","m","p","l","e","x","_","_">>, <<"_","_","i","n","t","_","_">>,
     <<"_","_","f","l","o","a","t","_","_">>, <<"_","_","i","n","d","e","x","_","_">>,
     <<"_","_","t","r","u","n","c","_","_">>, <<"_","_","f","l","o","o","r","_","_">>,
     <<"_","_","c","e","i","l","_","_">>, <<"_","_","e","n","t","e","r","_","_">>,
     <<"_","_","e","x","i","t","_","_">>, <<"_","_","a","w","a","i","t","_","_">>,
     <<"_","_","a","i","t","e","r","_","_">>, <<"_","_","a","n","e","x","t","_","_">>,
     <<"_","_","a","e","n","t","e","r","_","_">>, <<"_","_","a","e","x","i","t","_","_">>}

\* ---------------------------------------------------------------- syntax trees (module ast)

\* Python's None, where a node field is optional
None == [type |-> "None"]

FunctionTypes == {"AsyncFunctionDef", "FunctionDef", "Lambda"}

Name(id, ctx) == [type |-> "Name", id |-> id, ctx |-> ctx]

Attribute(value, attr) == [type |-> "Attribute", value |-> value, attr |-> attr, ctx |-> "Load"]

Call(func, args) == [type |-> "Call", func |-> func, args |-> args]

Subscript(value, slice) == [type |-> "Subscript", value |-> value, slice |-> slice, ctx |-> "Load"]

BinOp(left, right) == [type |-> "BinOp", left |-> left, right |-> right]

\* ast.Constant, as isinstance sees it: ast.Str, ast.Ellipsis, or neither (a number)
Str == [type |-> "Str"]

Ellipsis == [type |-> "Ellipsis"]

Num == [type |-> "Num"]

Pass == [type |-> "Pass"]

Expr(value) == [type |-> "Expr", value |-> value]

Return(value) == [type |-> "Return", value |-> value]

Raise(exc) == [type |-> "Raise", exc |-> exc, cause |-> None]

Assign(target, value) == [type |-> "Assign", targets |-> <<target>>, value |-> value]

Delete(target) == [type |-> "Delete", targets |-> <<target>>]

ClassDef(name, body, decorator_list) ==
    [type |-> "ClassDef", name |-> name, body |-> body, decorator_list |-> decorator_list]

Module(body) == [type |-> "Module", body |-> body]

arg(name, lineno, col_offset) ==
    [type |-> "arg", arg |-> name, lineno |-> lineno, col_offset |-> col_offset]

\* A parameter list as written: the names of each kind ("" = <<>> for an absent
\* *vararg or **kwarg).  Tokens is the list in source order, each token with the
\* characters that precede its name ("*", "**") and the slot of ast.arguments it fills;
\* a bare "/" follows positional-only names and a bare "*" precedes keyword-only
\* names when there is no *vararg.
Tokens(sig) ==
    [i \in 1..Len(sig.posonlyargs) |-> [slot |-> "posonlyargs", pre |-> 0, name |-> sig.posonlyargs[i]]]
    \o (IF sig.posonlyargs # <<>> THEN <<[slot |-> "/", pre |-> 1, name |-> <<>>]>> ELSE <<>>)
    \o [i \in 1..Len(sig.args) |-> [slot |-> "args", pre |-> 0, name |-> sig.args[i]]]
    \o (IF sig.vararg # <<>> THEN <<[slot |-> "vararg", pre |-> 1, name |-> sig.vararg]>>
        ELSE IF sig.kwonlyargs # <<>> THEN <<[slot |-> "*", pre |-> 1, name |-> <<>>]>> ELSE <<>>)
    \o [i \in 1..Len(sig.kwonlyargs) |-> [slot |-> "kwonlyargs", pre |-> 0, name |-> sig.kwonlyargs[i]]]
    \o (IF sig.kwarg # <<>> THEN <<[slot |-> "kwarg", pre |-> 2, name |-> sig.kwarg]>> ELSE <<>>)

\* The column of each token's name: tokens are separated by ", "
RECURSIVE Columns(_, _)
Columns(tokens, col) ==
    IF tokens = <<>> THEN <<>>
    ELSE <<col + Head(tokens).pre>>
         \o Columns(Tail(tokens), col + Head(tokens).pre + Len(Head(tokens).name) + 2)

\* ast.arguments of a parameter list whose first token starts at (lineno, col)
arguments(sig, lineno, col) ==
    LET tokens == Tokens(sig)
        cols == Columns(tokens, col)
        placed == [i \in 1..Len(tokens) |->
                     [slot |-> tokens[i].slot, node |-> arg(tokens[i].name, lineno, cols[i])]]
        Slot(s) == LET sel == SelectSeq(placed, LAMBDA t : t.slot = s)
                   IN [i \in 1..Len(sel) |-> sel[i].node]
        One(s) == IF Slot(s) = <<>> THEN None ELSE Slot(s)[1]
    IN [type |-> "arguments",
        posonlyargs |-> Slot("posonlyargs"),
        args |-> Slot("args"),
        vararg |-> One("vararg"),
        kwonlyargs |-> Slot("kwonlyargs"),
        kw_defaults |-> [i \in 1..Len(sig.kwonlyargs) |-> None],
        kwarg |-> One("kwarg"),
        defaults |-> <<>>]

\* "def name(sig):" at (lineno, col) under its decorators, one per line
FunctionDef(name, sig, body, decorator_list, lineno, col) ==
    [type |-> "FunctionDef", name |-> name,
     args |-> arguments(sig, lineno + Len(decorator_list), col + 4 + Len(name) + 1),
     body |-> body, decorator_list |-> decorator_list]

\* "async def name(sig):"
AsyncFunctionDef(name, sig, body, decorator_list, lineno, col) ==
    [type |-> "AsyncFunctionDef", name |-> name,
     args |-> arguments(sig, lineno + Len(decorator_list), col + 10 + Len(name) + 1),
     body |-> body, decorator_list |-> decorator_list]

\* "lambda sig: body" at (lineno, col): no name, no decorator_list
Lambda(sig, body, lineno, col) ==
    [type |-> "Lambda", args |-> arguments(sig, lineno, col + 7), body |-> body]

\* ast.iter_child_nodes: the child nodes in the order of the class's _fields
Optional(node) == IF node.type = "None" THEN <<>> ELSE <<node>>

RECURSIVE Present(_)
Present(nodes) ==
    IF nodes = <<>> THEN <<>> ELSE Optional(Head(nodes)) \o Present(Tail(nodes))

iter_child_nodes(node) ==
    CASE node.type = "Module" -> node.body
      [] node.type \in {"FunctionDef", "AsyncFunctionDef"} ->
            <<node.args>> \o node.body \o node.decorator_list
      [] node.type = "Lambda" -> <<node.args, node.body>>
      [] node.type = "arguments" ->
            node.posonlyargs \o node.args \o Optional(node.vararg) \o node.kwonlyargs
            \o Present(node.kw_defaults) \o Optional(node.kwarg) \o node.defaults
      [] node.type = "ClassDef" -> node.body \o node.decorator_list
      [] node.type = "Return" -> Optional(node.value)
      [] node.type = "Assign" -> node.targets \o <<node.value>>
      [] node.type = "Delete" -> node.targets
      [] node.type = "Expr" -> <<node.value>>
      [] node.type = "Raise" -> Optional(node.exc) \o Optional(node.cause)
      [] node.type = "Attribute" -> <<node.value>>
      [] node.type = "Call" -> <<node.func>> \o node.args
      [] node.type = "Subscript" -> <<node.value, node.slice>>
      [] node.type = "BinOp" -> <<node.left, node.right>>
      [] OTHER -> <<>>

\* hasattr(node, field)
hasattr(node, field) == field \in DOMAIN node

\* How a call ends: it returns a value, or an exception leaves it (a generator
\* keeps in value what it yielded before the exception)
Returns(value) == [exc |-> "", value |-> value]

Raises(exc, value) == [exc |-> exc, value |-> value]

\* ---------------------------------------------------------------- FunctionFinder

\* NodeVisitor.visit on a FunctionFinder: visit_FunctionDef, visit_AsyncFunctionDef
\* and visit_Lambda append the node and return; every other node goes to
\* generic_visit, which visits its children in order.  The value is the list
\* of nodes appended to self.functions.
RECURSIVE FunctionFinder_visit(_)
RECURSIVE FunctionFinder_generic_visit(_)
FunctionFinder_visit(node) ==
    IF node.type \in FunctionTypes THEN <<node>>
    ELSE FunctionFinder_generic_visit(iter_child_nodes(node))

FunctionFinder_generic_visit(children) ==
    IF children = <<>> THEN <<>>
    ELSE FunctionFinder_visit(Head(children)) \o FunctionFinder_generic_visit(Tail(children))

\* ---------------------------------------------------------------- get_arguments

get_arguments(function) ==
    LET args == function.args
    IN args.args
       \o (IF args.vararg # None THEN <<args.vararg>> ELSE <<>>)
       \o args.kwonlyargs
       \o (IF args.kwarg # None THEN <<args.kwarg>> ELSE <<>>)

\* ---------------------------------------------------------------- get_unused_arguments

\* list(enumerate(xs)): pairs <<index, x>>, the index counted from 0
enumerate(xs) == [i \in 1..Len(xs) |-> <<i - 1, xs[i]>>]

\* The Name nodes NameFinder().visit(node) hands to visit_Name, in visit order:
\* NameFinder defines visit_Name alone, so every other node, a nested function
\* or lambda included, is walked by generic_visit
RECURSIVE NameFinder_visit(_)
RECURSIVE NameFinder_generic_visit(_)
NameFinder_visit(node) ==
    IF node.type = "Name" THEN <<node>>
    ELSE NameFinder_generic_visit(iter_child_nodes(node))

NameFinder_generic_visit(children) ==
    IF children = <<>> THEN <<>>
    ELSE NameFinder_visit(Head(children)) \o NameFinder_generic_visit(Tail(children))

\* NameFinder.visit_Name: the nonlocal list after the visit of one Name
visit_Name(name, arguments_) ==
    IF name.ctx = "Store" THEN arguments_
    ELSE SelectSeq(arguments_, LAMBDA e : e[2].arg # name.id)

RECURSIVE VisitNames(_, _)
VisitNames(names, arguments_) ==
    IF names = <<>> THEN arguments_
    ELSE VisitNames(Tail(names), visit_Name(Head(names), arguments_))

get_unused_arguments(function) ==
    VisitNames(NameFinder_visit(function), enumerate(get_arguments(function)))

\* ---------------------------------------------------------------- get_decorator_names

\* One turn of the loop over function.decorator_list: the name yielded, or the
\* exception raised (decorator.func.attr of a node without attr; assert False)
DecoratorName(decorator) ==
    IF decorator.type = "Name" THEN Returns(decorator.id)
    ELSE IF decorator.type = "Attribute" THEN Returns(decorator.attr)
    ELSE IF decorator.type = "Call" THEN
        IF decorator.func.type = "Name" THEN Returns(decorator.func.id)
        ELSE IF hasattr(decorator.func, "attr") THEN Returns(decorator.func.attr)
        ELSE Raises("AttributeError", <<>>)
    ELSE Raises("AssertionError", <<>>)

RECURSIVE DecoratorNames(_, _)
DecoratorNames(decorator_list, yielded_) ==
    IF decorator_list = <<>> THEN Returns(yielded_)
    ELSE LET one == DecoratorName(Head(decorator_list))
         IN IF one.exc # "" THEN Raises(one.exc, yielded_)
            ELSE DecoratorNames(Tail(decorator_list), Append(yielded_, one.value))

\* The generator run to its end, as set(...) and list(...) run it
get_decorator_names(function) ==
    IF function.type = "Lambda" THEN Returns(<<>>)
    ELSE DecoratorNames(function.decorator_list, <<>>)

\* ---------------------------------------------------------------- is_stub_function

\* The tests on the statement under test (lines 288-306)
IsStubStatement(statement) ==
    IF statement.type = "Pass" THEN Returns(TRUE)
    ELSE IF statement.type = "Expr" /\ statement.value.type = "Ellipsis" THEN Returns(TRUE)
    ELSE IF statement.type = "Raise" THEN
        IF statement.exc.type = "Call" THEN
            IF ~hasattr(statement.exc.func, "id") THEN Raises("AttributeError", FALSE)
            ELSE Returns(statement.exc.func.id = NOT_IMPLEMENTED_ERROR)
        ELSE Returns(statement.exc.type = "Name" /\ statement.exc.id = NOT_IMPLEMENTED_ERROR)
    ELSE Returns(FALSE)

is_stub_function(function) ==
    IF function.type = "Lambda" THEN Returns(function.body.type = "Ellipsis")
    ELSE LET first == function.body[1]
             docstring == first.type = "Expr" /\ first.value.type = "Str"
         IN IF docstring /\ Len(function.body) <= 1 THEN Returns(TRUE)
            ELSE IsStubStatement(IF docstring THEN function.body[2] ELSE first)

\* ---------------------------------------------------------------- Plugin.run

\* name.endswith("_"): the test at the wrong end of the name
endswith_underscore(name) == Len(name) >= 1 /\ name[Len(name)] = "_"

\* name.startswith("_")
startswith_underscore(name) == Len(name) >= 1 /\ name[1] = "_"

U100 == <<"U", "1", "0", "0">>

U101 == <<"U", "1", "0", "1">>

\* "{error_code} Unused argument '{name}'".format(error_code=error_code, name=name)
format(error_code, name) ==
    error_code
    \o <<" ", "U", "n", "u", "s", "e", "d", " ", "a", "r", "g", "u", "m", "e", "n", "t", " ", "'">>
    \o name \o <<"'">>

\* Lines 202-214: the LintResult of a reported argument
LintResult(argument) ==
    LET name == argument.arg
        error_code == IF startswith_underscore(name) THEN U101 ELSE U100
    IN <<argument.lineno, argument.col_offset, format(error_code, name), "unused argument">>

\* Lines 192-196 without the test of function.args.kwarg
IsIgnoredVariadic_VarargOnly(function, name, opts) ==
    /\ opts.ignore_variadic_names
    /\ function.args.vararg # None /\ function.args.vararg.arg = name

\* Lines 192-196: the argument is skipped as *args or **kwargs
IsIgnoredVariadic(function, name, opts) ==
    /\ opts.ignore_variadic_names
    /\ \/ function.args.vararg # None /\ function.args.vararg.arg = name
       \/ function.args.kwarg # None /\ function.args.kwarg.arg = name

\* Line 199 without the test i == 0
IsImplicitFirst_AnyIndex(i, name, decorator_names) ==
    name = SELF \/ CLASSMETHOD \in decorator_names

\* Line 199: the argument is skipped as self, or as a classmethod's first argument
IsImplicitFirst(i, name, decorator_names) ==
    i = 0 /\ (name = SELF \/ CLASSMETHOD \in decorator_names)

\* Lines 190-214: what the inner loop yields for a function that is not skipped
Report(function, decorator_names, opts) ==
    LET kept == SelectSeq(get_unused_arguments(function),
                          LAMBDA e : /\ ~IsIgnoredVariadic(function, e[2].arg, opts)
                                     /\ ~IsImplicitFirst(e[1], e[2].arg, decorator_names))
    IN [k \in 1..Len(kept) |-> LintResult(kept[k][2])]

Range(seq) == {seq[i] : i \in 1..Len(seq)}

\* Lines 177-214: one turn of the loop over finder.functions: the LintResults
\* it yields, and the exception, if any, that leaves run
RunFunction(function, opts) ==
    LET names == get_decorator_names(function)
        decorator_names == Range(names.value)
    IN IF names.exc # "" THEN Raises(names.exc, <<>>)
       ELSE IF opts.ignore_abstract /\ ABSTRACTMETHOD \in decorator_names THEN Returns(<<>>)
       ELSE IF opts.ignore_overload /\ OVERLOAD \in decorator_names THEN Returns(<<>>)
       ELSE IF opts.ignore_magic /\ ~hasattr(function, "name") THEN Raises("AttributeError", <<>>)
       ELSE IF opts.ignore_magic /\ function.name \in MAGIC_METHODS THEN Returns(<<>>)
       ELSE IF opts.ignore_stubs /\ is_stub_function(function).exc # ""
            THEN Raises(is_stub_function(function).exc, <<>>)
       ELSE IF opts.ignore_stubs /\ is_stub_function(function).value THEN Returns(<<>>)
       ELSE Returns(Report(function, decorator_names, opts))

\* ---------------------------------------------------------------- the trees checked

\* Most plain positional parameters, most statements in a body, most decorators
MaxArgs == 2

MaxBody == 2

MaxDecorators == 1

A == <<"a">>

UNDERSCORE_B == <<"_", "b">>

P == <<"p">>

K == <<"k">>

ARGS == <<"a", "r", "g", "s">>

KWARGS == <<"k", "w", "a", "r", "g", "s">>

FOO == <<"f", "o", "o">>

BAR == <<"b", "a", "r">>

EXIT == <<"_", "_", "e", "x", "i", "t", "_", "_">>

TYPING == <<"t", "y", "p", "i", "n", "g">>

USE_FN == <<"u", "s", "e">>

SOMETHING_ELSE == <<"S", "o", "m", "e", "t", "h", "i", "n", "g", "E", "l", "s", "e">>

\* Sequences over S of length at most n, and those without a repeated element
SeqsUpTo(S, n) == UNION {[1..k -> S] : k \in 0..n}

InjectiveSeqsUpTo(S, n) ==
    {s \in SeqsUpTo(S, n) : \A i, j \in 1..Len(s) : i # j => s[i] # s[j]}

Sig(posonlyargs, args, vararg, kwonlyargs, kwarg) ==
    [posonlyargs |-> posonlyargs, args |-> args, vararg |-> vararg,
     kwonlyargs |-> kwonlyargs, kwarg |-> kwarg]

Positional(args) == Sig(<<>>, args, <<>>, <<>>, <<>>)

PositionalLists == InjectiveSeqsUpTo({SELF, A, UNDERSCORE_B}, MaxArgs)

\* every mix of the five kinds of parameter
AllSignatures ==
    {Sig(po, a, v, ko, kw) : po \in {<<>>, <<P>>}, a \in PositionalLists,
                             v \in {<<>>, ARGS}, ko \in {<<>>, <<K>>}, kw \in {<<>>, KWARGS}}

\* the parameter lists of the functions Plugin.run is given
RunSignatures ==
    {Sig(<<>>, a, t[1], t[2], t[3]) :
        a \in PositionalLists,
        t \in {<<<<>>, <<>>, <<>>>>, <<ARGS, <<>>, <<>>>>, <<<<>>, <<>>, KWARGS>>,
               <<<<>>, <<K>>, <<>>>>, <<ARGS, <<K>>, KWARGS>>}}
    \cup {Sig(<<>>, <<>>, SELF, <<>>, <<>>), Sig(<<P>>, <<SELF, A>>, <<>>, <<>>, <<>>)}

\* decorators that get_decorator_names names
NamedDecorators ==
    {Name(CLASSMETHOD, "Load"),
     Call(Name(ABSTRACTMETHOD, "Load"), <<>>),
     Attribute(Name(TYPING, "Load"), OVERLOAD)}

\* "@a", which reads the name a; "@bar()()", "@bar[0]" and "@bar[0]()"
OtherDecorators ==
    {Name(A, "Load"),
     Call(Attribute(Name(TYPING, "Load"), OVERLOAD), <<Name(A, "Load")>>),
     Call(Call(Name(BAR, "Load"), <<>>), <<>>),
     Subscript(Name(BAR, "Load"), Num),
     Call(Subscript(Name(BAR, "Load"), Num), <<>>)}

\* the statements bodies are made of
Statements ==
    {Pass,
     Expr(Str),
     Expr(Ellipsis),
     Expr(BinOp(Str, Str)),
     Return(None),
     Return(Num),
     Raise(None),
     Raise(Name(NOT_IMPLEMENTED_ERROR, "Load")),
     Raise(Call(Name(NOT_IMPLEMENTED_ERROR, "Load"), <<>>)),
     Raise(Name(SOMETHING_ELSE, "Load")),
     Raise(Call(Name(SOMETHING_ELSE, "Load"), <<>>)),
     Raise(Attribute(Name(BAR, "Load"), NOT_IMPLEMENTED_ERROR)),
     Raise(Call(Attribute(Name(BAR, "Load"), NOT_IMPLEMENTED_ERROR), <<>>))}

\* statements that read, write or delete the names a and _b, at (lineno, col)
UsageStatements(lineno, col) ==
    {Return(Name(A, "Load")),
     Assign(Name(A, "Store"), Num),
     Assign(Name(UNDERSCORE_B, "Store"), Num),
     Assign(Name(UNDERSCORE_B, "Store"), Name(A, "Load")),
     Assign(Attribute(Name(SELF, "Load"), BAR), Name(UNDERSCORE_B, "Load")),
     Delete(Name(UNDERSCORE_B, "Del")),
     Expr(Call(Name(USE_FN, "Load"), <<Name(ARGS, "Load")>>)),
     FunctionDef(BAR, Positional(<<>>), <<Return(Name(A, "Load"))>>, <<>>, lineno, col),
     FunctionDef(BAR, Positional(<<A>>), <<Assign(Name(K, "Store"), Num)>>, <<>>, lineno, col),
     Expr(Lambda(Positional(<<>>), Name(KWARGS, "Load"), lineno, col))}

\* bodies of one statement a line, the first at (lineno, col)
UsageBodies(lineno, col) ==
    UNION {{b \in [1..n -> UNION {UsageStatements(lineno + i - 1, col) : i \in 1..n}] :
                \A i \in 1..n : b[i] \in UsageStatements(lineno + i - 1, col)} :
           n \in 1..MaxBody}

NonEmpty(seqs) == {s \in seqs : s # <<>>}

\* functions that differ in their parameter lists: def, async def and lambda
SignatureFunctions ==
    UNION {{FunctionDef(FOO, s, <<Pass>>, <<>>, 1, 0),
            AsyncFunctionDef(FOO, s, <<Pass>>, <<>>, 1, 0),
            Lambda(s, Num, 1, 0)} : s \in AllSignatures}

\* functions that differ in what their bodies and decorators do with the parameters
UsageFunctions ==
    {FunctionDef(FOO, Sig(<<>>, <<SELF, A, UNDERSCORE_B>>, ARGS, <<K>>, KWARGS), b, d, 1, 0) :
        b \in UsageBodies(3, 4), d \in {<<>>, <<Name(A, "Load")>>}}
    \cup {Lambda(Positional(<<A, UNDERSCORE_B>>), e, 1, 0) :
            e \in {Num, Name(A, "Load"), BinOp(Name(A, "Load"), Name(UNDERSCORE_B, "Load")),
                   Lambda(Positional(<<>>), Name(UNDERSCORE_B, "Load"), 1, 14)}}
    \cup {FunctionDef(FOO, Positional(<<>>), <<Return(Name(A, "Load"))>>, <<>>, 1, 0)}

\* functions that differ in the shape of their bodies
StubFunctions ==
    UNION {{FunctionDef(FOO, Positional(<<>>), b, <<>>, 1, 0),
            AsyncFunctionDef(FOO, Positional(<<A>>), b, <<>>, 1, 0)} :
                b \in NonEmpty(SeqsUpTo(Statements, MaxBody))}
    \cup {Lambda(Positional(<<>>), e, 1, 0) : e \in {Ellipsis, Num, Str, Name(A, "Load")}}

\* functions that differ in their decorators
DecoratedFunctions ==
    {FunctionDef(FOO, Positional(<<>>), <<Pass>>, d, 1, 0) :
        d \in SeqsUpTo(NamedDecorators \cup OtherDecorators, MaxDecorators + 1)}
    \cup {Lambda(Positional(<<>>), Num, 1, 0)}

\* the functions the helpers are called on
HelperFunctions == SignatureFunctions \cup UsageFunctions \cup StubFunctions \cup DecoratedFunctions

\* the functions Plugin.run is given, a function at (lineno, col):
\* those that differ in name, decorators and body ...
SuppressionFunctions(lineno, col) ==
    {FunctionDef(n, Positional(a), b, d, lineno, col) :
        n \in {FOO, EXIT},
        a \in {<<>>, <<A>>, <<SELF, UNDERSCORE_B>>},
        b \in {<<Pass>>,
               <<Expr(Str), Return(Name(A, "Load"))>>,
               <<Raise(Call(Name(NOT_IMPLEMENTED_ERROR, "Load"), <<>>))>>,
               <<Raise(Call(Attribute(Name(BAR, "Load"), NOT_IMPLEMENTED_ERROR), <<>>))>>,
               <<Expr(Call(Name(USE_FN, "Load"), <<>>))>>},
        d \in SeqsUpTo(NamedDecorators, MaxDecorators)}

\* ... those that differ in their parameters ...
ParameterFunctions(lineno, col) ==
    {FunctionDef(FOO, s, b, d, lineno, col) :
        s \in RunSignatures,
        b \in {<<Pass>>, <<Return(Name(A, "Load"))>>},
        d \in {<<>>, <<Name(CLASSMETHOD, "Load")>>}}

\* ... those whose decorators get_decorator_names has no name for ...
OddlyDecoratedFunctions(lineno, col) ==
    {FunctionDef(FOO, Positional(<<A>>), <<Pass>>, <<d>>, lineno, col) :
        d \in {Call(Call(Name(BAR, "Load"), <<>>), <<>>), Subscript(Name(BAR, "Load"), Num)}}

\* ... and lambdas
Lambdas(lineno, col) ==
    {Lambda(s, e, lineno, col) :
        s \in {Positional(<<>>), Positional(<<A>>), Sig(<<>>, <<UNDERSCORE_B>>, ARGS, <<>>, <<>>)},
        e \in {Ellipsis, Num, Name(A, "Load")}}

\* a few functions to nest and to put side by side
FewFunctions(lineno, col) ==
    {FunctionDef(BAR, Positional(<<UNDERSCORE_B>>), <<Pass>>, <<>>, lineno, col),
     AsyncFunctionDef(EXIT, Positional(<<SELF, A>>), <<Return(Num)>>, <<>>, lineno, col),
     FunctionDef(BAR, Positional(<<K>>), <<Return(Name(A, "Load"))>>,
                 <<Name(ABSTRACTMETHOD, "Load")>>, lineno, col)}

\* the modules Plugin is constructed on
Modules ==
    \* one function
    {Module(<<f>>) : f \in SuppressionFunctions(1, 0) \cup ParameterFunctions(1, 0)
                          \cup OddlyDecoratedFunctions(1, 0)}
    \* "l = lambda ...", and a lambda in a lambda
    \cup {Module(<<Assign(Name(K, "Store"), f)>>) : f \in Lambdas(1, 4)}
    \cup {Module(<<Expr(Lambda(Positional(<<A>>), f, 1, 0))>>) : f \in Lambdas(1, 10)}
    \* a function, or a lambda, in the body of a function
    \cup {Module(<<FunctionDef(FOO, Positional(<<A>>), <<f>>, <<>>, 1, 0)>>) :
            f \in FewFunctions(2, 4)}
    \cup {Module(<<FunctionDef(FOO, Positional(<<SELF>>), <<Return(f)>>, <<>>, 1, 0)>>) :
            f \in Lambdas(2, 11)}
    \* a method of a class
    \cup {Module(<<ClassDef(FOO, <<f>>, <<>>)>>) : f \in FewFunctions(2, 4)}
    \* two functions, and a lambda after a function
    \cup {Module(<<f, g>>) : f \in FewFunctions(1, 0), g \in FewFunctions(10, 0)}
    \cup {Module(<<f, Expr(g)>>) : f \in FewFunctions(1, 0), g \in Lambdas(10, 0)}

Options ==
    [ignore_abstract : BOOLEAN, ignore_overload : BOOLEAN, ignore_magic : BOOLEAN,
     ignore_stubs : BOOLEAN, ignore_variadic_names : BOOLEAN]

\* Plugin's class attributes as the class statement sets them
DefaultOptions ==
    [ignore_abstract |-> FALSE, ignore_overload |-> FALSE, ignore_magic |-> FALSE,
     ignore_stubs |-> FALSE, ignore_variadic_names |-> FALSE]

\* ---------------------------------------------------------------- Plugin(tree).run()

\* Plugin.parse_options has set the switches and Plugin.__init__ has stored the tree
Init ==
    /\ tree \in Modules
    /\ options \in Options
    /\ functions = <<>>
    /\ index = 1
    /\ yielded = <<>>
    /\ state = "start"
    /\ result = Returns(<<>>)

\* Lines 173-174: finder = FunctionFinder(); finder.visit(self.tree)
Visit ==
    /\ state = "start"
    /\ functions' = FunctionFinder_visit(tree)
    /\ state' = "loop"
    /\ UNCHANGED <<tree, options, index, yielded, result>>

\* Lines 176-214: one turn of the loop over finder.functions
Iterate ==
    /\ state = "loop"
    /\ index <= Len(functions)
    /\ LET turn == RunFunction(functions[index], options)
       IN /\ yielded' = yielded \o turn.value
          /\ result' = turn
          /\ IF turn.exc # ""
             THEN state' = "raised" /\ index' = index
             ELSE state' = "loop" /\ index' = index + 1
    /\ UNCHANGED <<tree, options, functions>>

\* The loop is over: run returns
Finish ==
    /\ state = "loop"
    /\ index > Len(functions)
    /\ state' = "done"
    /\ UNCHANGED <<tree, options, functions, index, yielded, result>>

Next == Visit \/ Iterate \/ Finish

Spec == Init /\ [][Next]_vars

\* ---------------------------------------------------------------- the helpers, called alone

InitHelpers ==
    /\ tree \in HelperFunctions
    /\ options = DefaultOptions
    /\ functions = <<>>
    /\ index = 1
    /\ yielded = <<>>
    /\ state = "call"
    /\ result = Returns(<<>>)

\* get_arguments(function) returns
CallGetArguments ==
    /\ state = "call"
    /\ state' = "get_arguments"
    /\ result' = Returns(get_arguments(tree))
    /\ UNCHANGED <<tree, options, functions, index, yielded>>

\* get_unused_arguments(function) returns
CallGetUnusedArguments ==
    /\ state = "call"
    /\ state' = "get_unused_arguments"
    /\ result' = Returns(get_unused_arguments(tree))
    /\ UNCHANGED <<tree, options, functions, index, yielded>>

\* list(get_decorator_names(function)) returns or raises
CallGetDecoratorNames ==
    /\ state = "call"
    /\ state' = "get_decorator_names"
    /\ result' = get_decorator_names(tree)
    /\ UNCHANGED <<tree, options, functions, index, yielded>>

\* is_stub_function(function) returns or raises
CallIsStubFunction ==
    /\ state = "call"
    /\ state' = "is_stub_function"
    /\ result' = is_stub_function(tree)
    /\ UNCHANGED <<tree, options, functions, index, yielded>>

NextHelpers ==
    CallGetArguments \/ CallGetUnusedArguments \/ CallGetDecoratorNames \/ CallIsStubFunction

SpecHelpers == InitHelpers /\ [][NextHelpers]_vars

\* ---------------------------------------------------------------- properties

\* every node of the subtree of a node, the node included
RECURSIVE Descendants(_)
Descendants(node) ==
    {node} \cup UNION {Descendants(iter_child_nodes(node)[i]) : i \in 1..Len(iter_child_nodes(node))}

\* every function node of a tree, in depth-first document order
RECURSIVE EveryFunction(_)
RECURSIVE EveryFunctionOf(_)
EveryFunction(node) ==
    (IF node.type \in FunctionTypes THEN <<node>> ELSE <<>>)
    \o EveryFunctionOf(iter_child_nodes(node))

EveryFunctionOf(children) ==
    IF children = <<>> THEN <<>>
    ELSE EveryFunction(Head(children)) \o EveryFunctionOf(Tail(children))

\* the parameters a function declares
Declared(function) == {n \in Descendants(function.args) : n.type = "arg"}

\* no two parameters of the tree are declared at the same place
DistinctPlaces ==
    \A f, g \in Range(EveryFunction(tree)) : \A p \in Declared(f), q \in Declared(g) :
        (p.lineno = q.lineno /\ p.col_offset = q.col_offset) => (p = q /\ f = g)

\* run has yielded a LintResult at the place of parameter p
Diagnosed(p) ==
    \E k \in 1..Len(yielded) : yielded[k][1] = p.lineno /\ yielded[k][2] = p.col_offset

\* the loop of run has completed its turn for finder.functions[i]
Turned(i) == i \in 1..Len(functions) /\ i < index

\* the set of a function's decorator names
DecoratorSet(function) == Range(get_decorator_names(function).value)

\* the name is read somewhere in the function: a Name that is not an assignment target
IsRead(function, name) ==
    \E n \in Descendants(function) : n.type = "Name" /\ n.id = name /\ n.ctx # "Store"

\* the function is suppressed as a whole under the switches
Suppressed(function) ==
    \/ options.ignore_abstract /\ ABSTRACTMETHOD \in DecoratorSet(function)
    \/ options.ignore_overload /\ OVERLOAD \in DecoratorSet(function)
    \/ options.ignore_magic /\ hasattr(function, "name") /\ function.name \in MAGIC_METHODS
    \/ options.ignore_stubs /\ is_stub_function(function).exc = ""
                            /\ is_stub_function(function).value

\* the parameter is the function's *args or **kwargs
IsVariadic(function, p) == p = function.args.vararg \/ p = function.args.kwarg

\* the entry <<i, p>> is exempt as the implicit first parameter
IsFirstExempt(function, e) ==
    e[1] = 0 /\ (e[2].arg = SELF \/ CLASSMETHOD \in DecoratorSet(function))

\* the entry <<i, p>> of get_unused_arguments is one run reports
Reportable(function, e) ==
    /\ ~(options.ignore_variadic_names /\ IsVariadic(function, e[2]))
    /\ ~IsFirstExempt(function, e)

\* C1: every LintResult run yields is, for some unused parameter p of a collected
\* function, (p's line, p's column, "<code> Unused argument '<name>'", "unused argument"),
\* where <code> is U101 if and only if p's name starts with an underscore and U100
\* otherwise; no other code and no other check name is produced.
C1_LintResultShape ==
    \A k \in 1..Len(yielded) :
        /\ yielded[k][4] = "unused argument"
        /\ SubSeq(yielded[k][3], 1, 4) \in {U100, U101}
        /\ \E f \in Range(functions) : \E e \in Range(get_unused_arguments(f)) :
              LET p == e[2]
                  text == yielded[k][3]
              IN /\ yielded[k][1] = p.lineno
                 /\ yielded[k][2] = p.col_offset
                 /\ (SubSeq(text, 1, 4) = U101) <=> (Head(p.arg) = "_")
                 /\ (SubSeq(text, 1, 4) = U100) <=> (Head(p.arg) # "_")
                 /\ SubSeq(text, 5, Len(text)) =
                       <<" ", "U", "n", "u", "s", "e", "d", " ", "a", "r", "g", "u", "m",
                         "e", "n", "t", " ", "'">> \o p.arg \o <<"'">>

\* C1's case: run has yielded both a U101 and a U100 result
C1_Witness ==
    /\ \E k \in 1..Len(yielded) : SubSeq(yielded[k][3], 1, 4) = U101
    /\ \E k \in 1..Len(yielded) : SubSeq(yielded[k][3], 1, 4) = U100

\* C2: when run has ended, a collected function has no LintResult at all if and only
\* if it is suppressed as a whole (ignore_abstract and "abstractmethod" among its
\* decorator names, ignore_overload and "overload", ignore_magic and its name in
\* MAGIC_METHODS, ignore_stubs and is_stub_function) or it has no reportable unused
\* parameter.
C2_SuppressedIff ==
    state \in {"done", "raised"} =>
        \A i \in 1..Len(functions) :
            LET f == functions[i]
            IN (\A p \in Declared(f) : ~Diagnosed(p))
               <=> \/ Suppressed(f)
                   \/ \A e \in Range(get_unused_arguments(f)) : ~Reportable(f, e)

\* C3: in a function whose turn is complete and which is not suppressed, an unused
\* parameter that is not skipped as variadic goes unreported exactly when its index
\* is 0 and it is named "self" or the function is a classmethod; at an index above 0
\* it is reported, whatever its name and the decorators.
C3_ImplicitFirst ==
    \A i \in 1..Len(functions) :
        (Turned(i) /\ ~Suppressed(functions[i])) =>
            \A e \in Range(get_unused_arguments(functions[i])) :
                ~(options.ignore_variadic_names /\ IsVariadic(functions[i], e[2])) =>
                    /\ ~Diagnosed(e[2]) <=>
                          (e[1] = 0 /\ (e[2].arg = SELF
                                        \/ CLASSMETHOD \in DecoratorSet(functions[i])))
                    /\ e[1] > 0 => Diagnosed(e[2])

\* C3's case: a classmethod's unused first parameter went unreported while its
\* unused parameter named self, at a later index, was reported
C3_Witness ==
    \E i \in 1..Len(functions) :
        /\ Turned(i)
        /\ CLASSMETHOD \in DecoratorSet(functions[i])
        /\ \E e, l \in Range(get_unused_arguments(functions[i])) :
              /\ e[1] = 0 /\ e[2].arg # SELF /\ ~Diagnosed(e[2])
              /\ l[1] > 0 /\ l[2].arg = SELF /\ Diagnosed(l[2])

\* the LintResults one turn yields with ignore_variadic_names the other way
OtherWay(function) ==
    RunFunction(function, [options EXCEPT !.ignore_variadic_names = ~@]).value

\* C4: with ignore_variadic_names set, no LintResult is ever at a *args or **kwargs
\* parameter; with it clear, an unused variadic parameter of a function whose turn is
\* complete and which is not suppressed is reported unless the implicit-first rule
\* exempts it, like any other parameter; and a parameter that is not variadic is
\* reported with the switch one way exactly when it is with the switch the other way.
C4_VariadicNames ==
    /\ options.ignore_variadic_names =>
          \A f \in Range(EveryFunction(tree)) : \A p \in Declared(f) :
              IsVariadic(f, p) => ~Diagnosed(p)
    /\ \A i \in 1..Len(functions) :
          Turned(i) =>
              LET f == functions[i]
              IN /\ (~options.ignore_variadic_names /\ ~Suppressed(f)) =>
                       \A e \in Range(get_unused_arguments(f)) :
                           IsVariadic(f, e[2]) => (Diagnosed(e[2]) <=> ~IsFirstExempt(f, e))
                 /\ \A p \in Declared(f) :
                       ~IsVariadic(f, p) =>
                           (Diagnosed(p) <=>
                               \E k \in 1..Len(OtherWay(f)) :
                                   /\ OtherWay(f)[k][1] = p.lineno
                                   /\ OtherWay(f)[k][2] = p.col_offset)

\* C4's case: with the switch set, a function's unused *args and **kwargs went
\* unreported while an unused keyword-only parameter of it was reported
C4_Witness ==
    /\ options.ignore_variadic_names
    /\ \E i \in 1..Len(functions) :
          /\ Turned(i)
          /\ \E v, w, e \in Range(get_unused_arguments(functions[i])) :
                /\ v[2] = functions[i].args.vararg /\ ~Diagnosed(v[2])
                /\ w[2] = functions[i].args.kwarg /\ ~Diagnosed(w[2])
                /\ e[2] \in Range(functions[i].args.kwonlyargs) /\ Diagnosed(e[2])

\* C8: on a tree whose every decorator is a Name, an Attribute or a Call, run never
\* ends by raising, whatever the five switches are.
C8_NeverRaises ==
    (\A f \in Range(EveryFunction(tree)) :
        f.type # "Lambda" =>
            \A d \in Range(f.decorator_list) : d.type \in {"Name", "Attribute", "Call"})
    => state # "raised"

\* C9: once finder.visit has returned, finder.functions holds every function, async
\* function and lambda node of the tree once, those nested in functions and classes
\* included, in depth-first document order.
C9_CollectsEveryFunction ==
    state # "start" => functions = EveryFunction(tree)

\* C5: get_unused_arguments returns exactly the parameters of the function whose name
\* no Name node of the function other than an assignment target carries (a nested
\* function's nodes included, so a parameter that is only assigned to stays), in the
\* order of get_arguments and with the indices of that order; a function without
\* parameters gives the empty list.
C5_UnusedArguments ==
    state = "get_unused_arguments" =>
        /\ result.exc = ""
        /\ {result.value[k][2] : k \in 1..Len(result.value)} =
              {p \in Declared(tree) : ~IsRead(tree, p.arg)}
        /\ \A k \in 1..Len(result.value) :
              result.value[k] \in Range(enumerate(get_arguments(tree)))
        /\ \A k, l \in 1..Len(result.value) : k < l => result.value[k][1] < result.value[l][1]
        /\ Declared(tree) = {} => result.value = <<>>

\* Among the parameters get_arguments lists, get_unused_arguments returns exactly
\* those never read, in order and with their indices
UnusedAmongListed ==
    state = "get_unused_arguments" =>
        result = Returns(SelectSeq(enumerate(get_arguments(tree)),
                                   LAMBDA e : ~IsRead(tree, e[2].arg)))

\* a's only reads are in a function nested in the body, and a is not returned; _b is
\* an assignment target, is read nowhere, and is returned at its index, 2
UnusedAmongListedCase ==
    /\ state = "get_unused_arguments"
    /\ tree.type = "FunctionDef"
    /\ \E s \in Range(tree.body) : s.type = "FunctionDef" /\ IsRead(s, A)
    /\ \A s \in Range(tree.body) \cup Range(tree.decorator_list) :
          s.type # "FunctionDef" => ~IsRead(s, A)
    /\ \E n \in Descendants(tree) : n.type = "Name" /\ n.id = UNDERSCORE_B /\ n.ctx = "Store"
    /\ \A k \in 1..Len(result.value) : result.value[k][2].arg # A
    /\ \E k \in 1..Len(result.value) :
          result.value[k][1] = 2 /\ result.value[k][2].arg = UNDERSCORE_B

\* C6: get_arguments returns every declared parameter of the function exactly once:
\* the positional parameters in declared order, then *vararg, then the keyword-only
\* parameters in declared order, then **kwarg.
C6_EveryParameterOnce ==
    state = "get_arguments" =>
        /\ \A p \in Declared(tree) :
              Cardinality({i \in 1..Len(result.value) : result.value[i] = p}) = 1
        /\ result.value =
              tree.args.posonlyargs \o tree.args.args \o Optional(tree.args.vararg)
              \o tree.args.kwonlyargs \o Optional(tree.args.kwarg)

\* what C7 says is_stub_function returns
ClaimedStub(function) ==
    IF function.type = "Lambda" THEN function.body.type = "Ellipsis"
    ELSE LET first == function.body[1]
             docstring == first.type = "Expr" /\ first.value.type = "Str"
             statement == IF docstring /\ Len(function.body) > 1 THEN function.body[2] ELSE first
         IN \/ docstring /\ Len(function.body) = 1
            \/ statement.type = "Pass"
            \/ statement.type = "Expr" /\ statement.value.type = "Ellipsis"
            \/ /\ statement.type = "Raise"
               /\ \/ statement.exc.type = "Name" /\ statement.exc.id = NOT_IMPLEMENTED_ERROR
                  \/ /\ statement.exc.type = "Call"
                     /\ statement.exc.func.type = "Name"
                     /\ statement.exc.func.id = NOT_IMPLEMENTED_ERROR

\* C7: is_stub_function returns a boolean for every function: for a lambda, whether
\* the body is the ellipsis; otherwise, with the statement under test the second one
\* after a docstring (a docstring alone is a stub), whether that statement is pass,
\* the ellipsis, or a raise of the name NotImplementedError or of a call to it; false
\* for every other statement, a raise of any other expression included.
C7_StubBoolean ==
    state = "is_stub_function" =>
        /\ result.exc = ""
        /\ result.value = ClaimedStub(tree)

\* the simple name of a decorator: the identifier, the final attribute name, or for
\* a call the simple name of its callee
RECURSIVE SimpleName(_)
SimpleName(decorator) ==
    CASE decorator.type = "Name" -> decorator.id
      [] decorator.type = "Attribute" -> decorator.attr
      [] decorator.type = "Call" -> SimpleName(decorator.func)
      [] OTHER -> <<>>

\* C10: get_decorator_names yields nothing for a lambda and, for a function whose
\* decorators are each a Name, an Attribute or a Call, one simple name per decorator
\* in decorator order, the arguments of a call ignored.
C10_OneNamePerDecorator ==
    state = "get_decorator_names" =>
        IF tree.type = "Lambda" THEN result = Returns(<<>>)
        ELSE (\A d \in Range(tree.decorator_list) : d.type \in {"Name", "Attribute", "Call"})
             => result = Returns([i \in 1..Len(tree.decorator_list) |->
                                     SimpleName(tree.decorator_list[i])])

\* ---------------------------------------------------------------- where the helpers and run do as described

\* On a run that returns, a collected function has no LintResult exactly when it is
\* suppressed as a whole or has no reportable unused parameter among those
\* get_arguments lists
SuppressedIffWhenDone ==
    state = "done" => C2_SuppressedIff

\* For a function without positional-only parameters get_arguments returns every
\* declared parameter once, in the order positional, *vararg, keyword-only, **kwarg
EveryParameterOnceWithoutPosonly ==
    (state = "get_arguments" /\ tree.args.posonlyargs = <<>>) => C6_EveryParameterOnce

\* Whenever is_stub_function returns, it returns the boolean described
StubBooleanWhenReturned ==
    (state = "is_stub_function" /\ result.exc = "") => result.value = ClaimedStub(tree)

\* Whenever get_decorator_names runs to its end, it has yielded one simple name per
\* decorator
OneNamePerDecoratorWhenReturned ==
    (state = "get_decorator_names" /\ result.exc = "") => C10_OneNamePerDecorator

\* run raises AssertionError for a decorator of another shape, or AttributeError
ExceptionsRaised ==
    state = "raised" => result.exc \in {"AssertionError", "AttributeError"}

\* finder.functions holds the function nodes that are in no other function node:
\* the visit stops at each function it appends
CollectsOutermostFunctions ==
    state # "start" =>
        /\ Range(functions) =
              {f \in Range(EveryFunction(tree)) :
                  \A g \in Range(EveryFunction(tree)) : g # f => f \notin Descendants(g)}
        /\ \A i, j \in 1..Len(functions) : i # j => functions[i] # functions[j]
====
